---- MODULE Spec2Model ----
(***************************************************************************)
(* Scroll story animator: the scroll-progress tracker                      *)
(* (src/src/scrollListener.js) and the map animator that receives its      *)
(* messages (src/unnamed/part_001, src/map/animateOnScroll.js).            *)
(*                                                                         *)
(* JavaScript values are encoded as follows.                               *)
(*   null / NaN            the empty sequence <<>>                         *)
(*   a number n that may   the one-element sequence <<n>>                  *)
(*   be null or NaN                                                        *)
(*   a string              a sequence of one-character strings             *)
(*   a quotient in [0,1]   a record [nan, num, den], den > 0               *)
(*   x.toFixed(2)          a record [nan, cents], cents = hundredths       *)
(***************************************************************************)
EXTENDS Integers, Sequences, FiniteSets, TLC

VARIABLES
  \* --- scrollListener.js: module state ---
  isDocked,          \* let isDocked
  dockStartScroll,   \* let dockStartScroll (Null or <<y>>)
  lastScrollY,       \* let lastScrollY
  scrollDirection,   \* let scrollDirection
  currentSlide,      \* let currentSlide
  \* --- the host document the tracker observes ---
  scrollY,           \* window.scrollY
  docked,            \* target.classList.contains("docked")
  dockObserver,      \* "polling" until waitForElement finds the target, then "attached"
  frameWatcher,      \* "polling" until waitForElement finds the story node, then "attached"
  iframe,            \* NoFrame, or [src, observed] of the frame under the story node
  panels,            \* div.immersive-narrative-panel elements, in document order
  dockSeen,          \* the class state the observer's latest callback read (Null: none ran)
  dockRecords,       \* the class observer's queued mutation records: "none", "one", "several"
  \* --- what the handler that ran last did ---
  ev,
  \* --- results of the pure functions, applied to the inputs above ---
  progressOut,       \* getPanelProgress(panels, currentSlide, scrollY)
  parseOut,          \* the two parses of iframe.src
  \* --- the map animator (part_001): module state ---
  slides,            \* let slides
  mapView,           \* let mapView (Null until the view is ready)
  isEmbedded,        \* let isEmbedded
  hashIndexLast,     \* let hashIndexLast (Null or <<n>>)
  initPc,            \* where initMapAnimator is: "start", "loading", "ready", "rejected"
  listeners,         \* the event listeners installed on the window and the map element
  \* --- what the animator's handler that ran last did ---
  rx,
  \* --- animateOnScroll.js: one call of scrollAnimation ---
  animArgs,          \* its arguments: the two slides, progress, the view, the slider
  animDone           \* what it did: handlers run, goTo calls, the slider afterwards

trackerVars == <<isDocked, dockStartScroll, lastScrollY, scrollDirection, currentSlide,
                 scrollY, docked, dockObserver, frameWatcher, iframe, panels, dockSeen,
                 dockRecords, ev>>

receiverVars == <<slides, mapView, isEmbedded, hashIndexLast, initPc, listeners, rx>>

\* What the tracker's handlers leave alone.
animVars == <<animArgs, animDone>>

otherVars == <<dockSeen, dockRecords, progressOut, parseOut, receiverVars, animVars>>

vars == <<trackerVars, progressOut, parseOut, receiverVars, animVars>>

----------------------------------------------------------------------------
(* Bounds *)

MaxScroll == 3         \* window.scrollY ranges over 0..MaxScroll
MaxOffsetHeight == 3   \* a panel's offsetHeight ranges over 0..MaxOffsetHeight
MaxPanels == 3         \* panel lists of the pure-function checks have 1..MaxPanels panels
MaxSrcLen == 3         \* src strings of the parsing checks have at most MaxSrcLen characters
MaxProgressScroll == 8 \* scrollY of the progress checks ranges over 0..MaxProgressScroll
MaxSlides == 3         \* a choreography has 1..MaxSlides slides; messages name slides 0..MaxSlides

----------------------------------------------------------------------------
(* JavaScript values *)

Null == <<>>
NaN == <<>>
Num(n) == <<n>>
Val(x) == x[1]

Abs(a) == IF a < 0 THEN -a ELSE a

Digits == {"0", "1", "2", "3", "4", "5", "6", "7", "8", "9"}

DigitVal(c) ==
  CASE c = "0" -> 0 [] c = "1" -> 1 [] c = "2" -> 2 [] c = "3" -> 3 [] c = "4" -> 4
    [] c = "5" -> 5 [] c = "6" -> 6 [] c = "7" -> 7 [] c = "8" -> 8 [] c = "9" -> 9

\* The longest prefix of s made of decimal digits.
RECURSIVE DigitPrefix(_)
DigitPrefix(s) ==
  IF s = <<>> \/ Head(s) \notin Digits THEN <<>>
  ELSE <<Head(s)>> \o DigitPrefix(Tail(s))

RECURSIVE DecimalValue(_, _)
DecimalValue(s, acc) ==
  IF s = <<>> THEN acc ELSE DecimalValue(Tail(s), 10 * acc + DigitVal(Head(s)))

RECURSIVE TrimStart(_)
TrimStart(s) ==
  IF s # <<>> /\ Head(s) = " " THEN TrimStart(Tail(s)) ELSE s

\* parseInt(s, 10): leading white space is skipped, one sign is accepted, the
\* longest run of digits that follows is the value, and anything after it is
\* ignored; NaN when no digit follows.
ParseInt10(s) ==
  LET t == TrimStart(s)
      neg == t # <<>> /\ Head(t) = "-"
      body == IF t # <<>> /\ Head(t) \in {"-", "+"} THEN Tail(t) ELSE t
      ds == DigitPrefix(body)
  IN IF ds = <<>> THEN NaN
     ELSE Num(IF neg THEN -DecimalValue(ds, 0) ELSE DecimalValue(ds, 0))

\* s.split("#"): the pieces of s between the "#" characters, in order.
RECURSIVE Split(_, _)
Split(s, cur) ==
  IF s = <<>> THEN <<cur>>
  ELSE IF Head(s) = "#" THEN <<cur>> \o Split(Tail(s), <<>>)
  ELSE Split(Tail(s), Append(cur, Head(s)))

\* parts.pop()
Pop(parts) == parts[Len(parts)]

----------------------------------------------------------------------------
(* PanelGeometry: scrollListener.js, lines 28-68 *)

\* A panel element: its class and the layout numbers getPanelHeight reads.
Panel(cls, h, m) ==
  [first |-> cls = "first", last |-> cls = "last", offsetHeight |-> h,
   marginTop |-> m, marginBottom |-> m, paddingBottom |-> m]

getPanelHeight(panel) ==
  IF panel.first THEN panel.offsetHeight - panel.marginTop
  ELSE IF panel.last THEN panel.offsetHeight - panel.paddingBottom
  ELSE panel.offsetHeight + panel.marginBottom + panel.marginTop

\* panels[i] is undefined outside the list, and getPanelHeight(undefined) throws.
BoundsThrow(ps, slide) == ~(0 <= slide /\ slide < Len(ps))

RECURSIVE SumHeights(_, _)
SumHeights(ps, n) ==
  IF n = 0 THEN 0 ELSE SumHeights(ps, n - 1) + getPanelHeight(ps[n])

\* The source indexes panels from 0; sequences here start at 1.
getPanelScrollBounds(ps, slide, anchor) ==
  LET panelStartScroll == anchor + SumHeights(ps, slide)
      panelHeight == getPanelHeight(ps[slide + 1])
  IN [panelStartScroll |-> panelStartScroll,
      panelEndScroll |-> panelStartScroll + panelHeight]

Zero == [nan |-> FALSE, num |-> 0, den |-> 1]
One == [nan |-> FALSE, num |-> 1, den |-> 1]
NotANumber == [nan |-> TRUE, num |-> 0, den |-> 1]

\* A quotient that is clamped to 1 above but not to 0 below.
QuotientNoLowerClamp(n, d) ==
  IF d = 0 THEN (IF n = 0 THEN NotANumber ELSE IF n > 0 THEN One ELSE Zero)
  ELSE IF (d > 0 /\ n >= d) \/ (d < 0 /\ n <= d) THEN One
  ELSE [nan |-> FALSE, num |-> IF d < 0 THEN -n ELSE n, den |-> Abs(d)]

\* Math.max(0, Math.min(1, n / d)) in IEEE arithmetic: 0/0 is NaN and stays NaN
\* through min and max; n/0 is +Infinity or -Infinity and is clamped.
ClampedQuotient(n, d) ==
  IF d = 0 THEN (IF n = 0 THEN NotANumber ELSE IF n > 0 THEN One ELSE Zero)
  ELSE IF (d > 0 /\ n <= 0) \/ (d < 0 /\ n >= 0) THEN Zero
  ELSE IF (d > 0 /\ n >= d) \/ (d < 0 /\ n <= d) THEN One
  ELSE [nan |-> FALSE, num |-> Abs(n), den |-> Abs(d)]

getPanelProgress(ps, slide, y, anchor) ==
  LET b == getPanelScrollBounds(ps, slide, anchor)
  IN ClampedQuotient(y - b.panelStartScroll, b.panelEndScroll - b.panelStartScroll)

\* progress.toFixed(2): the nearest hundredth ("NaN" for NaN). A quotient lies
\* exactly between two hundredths only when its denominator is a multiple of
\* 8, which no panel height here is.
ToFixed2(p) ==
  IF p.nan THEN [nan |-> TRUE, cents |-> 0]
  ELSE [nan |-> FALSE, cents |-> (200 * p.num + p.den) \div (2 * p.den)]

\* Order on quotients.
Leq(p, q) == p.num * q.den <= q.num * p.den

----------------------------------------------------------------------------
(* SlideIndexResolver: scrollListener.js, lines 75-83 and 174-184 *)

\* The src-mutation observer's parse of the frame's src (lines 77-80).
SrcObserverSlide(newSrc) ==
  LET parts == Split(newSrc, <<>>)
      slideNumber == ParseInt10(IF Len(parts) > 1 THEN Pop(parts) ELSE <<"0">>)
  IN IF slideNumber = NaN THEN 0 ELSE Val(slideNumber)

\* A parse that takes the segment after the first "#" instead of the last.
FallbackSlideFirstSegment(iframeSrc) ==
  LET parts == Split(iframeSrc, <<>>)
      slideNumber == ParseInt10(IF Len(parts) > 1 THEN parts[2] ELSE <<"0">>)
      detectedSlide == IF slideNumber = NaN THEN 0 ELSE Val(slideNumber)
  IN detectedSlide

\* The scroll handler's inline parse of the frame's src (lines 177-180).
FallbackSlide(iframeSrc) ==
  LET parts == Split(iframeSrc, <<>>)
      slideNumber == ParseInt10(IF Len(parts) > 1 THEN Pop(parts) ELSE <<"0">>)
      detectedSlide == IF slideNumber = NaN THEN 0 ELSE Val(slideNumber)
  IN detectedSlide

----------------------------------------------------------------------------
(* The host document *)

NoFrame == [present |-> FALSE, src |-> <<>>, observed |-> FALSE]
Frame(s) == [present |-> TRUE, src |-> s, observed |-> FALSE]

\* The src values the story gives the embedded frame.
SrcSamples ==
  { <<"u">>, <<"u", "#", "1">>, <<"u", "#", "2">>, <<"u", "#", "a">>,
    <<"u", "#", "-", "1">> }

\* Panel lists of the story: effective heights <<2, 0>> and <<1, 3, 2>>.
Layouts ==
  { <<Panel("first", 3, 1), Panel("last", 1, 1)>>,
    <<Panel("first", 1, 0), Panel("mid", 1, 1), Panel("last", 2, 0)>> }

----------------------------------------------------------------------------
(* Messages posted to the embedded frame *)

Controller == "storymap-controller"

\* {source, payload: {isEmbedded: true}} (lines 130-136)
InitMessage ==
  [source |-> Controller,
   payload |-> [type |-> "undefined", slide |-> Null, progress |-> Null,
                isEmbedded |-> TRUE]]

\* {source, payload: {type: "progress", slide, progress, isEmbedded: true}} (lines 189-200)
ProgressMessage(slide, fixed) ==
  [source |-> Controller,
   payload |-> [type |-> "progress", slide |-> Num(slide), progress |-> <<fixed>>,
                isEmbedded |-> TRUE]]

Ev(op, posted, threw) == [op |-> op, posted |-> posted, threw |-> threw]
NoEv == Ev("none", <<>>, FALSE)

----------------------------------------------------------------------------
(* DockTracker: scrollListener.js, lines 88-115 *)

\* waitForElement finds the docking container; the class observer is attached
\* (lines 91, 112).
DockTargetFound ==
  /\ dockObserver = "polling"
  /\ dockObserver' = "attached"
  /\ ev' = NoEv
  /\ UNCHANGED <<isDocked, dockStartScroll, lastScrollY, scrollDirection, currentSlide,
                 scrollY, docked, frameWatcher, iframe, panels, otherVars>>

\* One more mutation record in the observer's queue (line 112: the records of
\* class changes made before the callback runs are delivered together).
Queued(records) == IF records = "none" THEN "one" ELSE "several"

\* The story adds the "docked" marker to the container or removes it; an
\* attached observer queues a record of the change.
ClassChange ==
  /\ docked' = ~docked
  /\ dockRecords' = IF dockObserver = "attached" THEN Queued(dockRecords)
                    ELSE dockRecords
  /\ ev' = NoEv
  /\ UNCHANGED <<isDocked, dockStartScroll, lastScrollY, scrollDirection, currentSlide,
                 scrollY, dockObserver, frameWatcher, iframe, panels, dockSeen,
                 progressOut, parseOut, receiverVars, animVars>>

\* A tracker that records the anchor on every entry into dock.
AnchorOnDockAnyDirection(direction, currentScroll, anchor) == Num(currentScroll)

\* Lines 100-102: the anchor after an entry into dock.
AnchorOnDock(direction, currentScroll, anchor) ==
  IF direction = "down" THEN Num(currentScroll) ELSE anchor

\* A tracker that forgets the anchor when the dock is left.
AnchorClearedOnUndock(anchor) == Null

\* Lines 107-109: leaving the dock clears isDocked and nothing else.
AnchorOnUndock(anchor) == anchor

\* A callback that takes every docked reading for an entry.
EntersDockWhenDocked(currentlyDocked, dockedBefore) == currentlyDocked

\* Line 95: currentlyDocked && !isDocked
EntersDock(currentlyDocked, dockedBefore) == currentlyDocked /\ ~dockedBefore

\* A callback that never takes a reading for a departure.
LeavesDockNever(currentlyDocked, dockedBefore) == FALSE

\* Line 107: !currentlyDocked && isDocked
LeavesDock(currentlyDocked, dockedBefore) == ~currentlyDocked /\ dockedBefore

\* What a callback of the class observer did, and the records it was called
\* with (line 92; the callback ignores them).
DockEv(op, records) ==
  [op |-> op, posted |-> <<>>, threw |-> FALSE, records |-> records]

\* The class observer's callback (lines 92-110). It runs after any change of the
\* container's class attribute, so at any time once attached, and reads the
\* class list as it is when it runs.
DockObserverCallback ==
  /\ dockObserver = "attached"
  /\ LET currentlyDocked == docked
     IN IF EntersDock(currentlyDocked, isDocked)
        THEN /\ isDocked' = TRUE
             /\ dockStartScroll' = AnchorOnDock(scrollDirection, scrollY, dockStartScroll)
             /\ ev' = DockEv("dock-enter", dockRecords)
        ELSE IF LeavesDock(currentlyDocked, isDocked)
        THEN /\ isDocked' = FALSE
             /\ dockStartScroll' = AnchorOnUndock(dockStartScroll)
             /\ ev' = DockEv("dock-leave", dockRecords)
        ELSE /\ UNCHANGED <<isDocked, dockStartScroll>>
             /\ ev' = DockEv("dock-same", dockRecords)
  /\ dockSeen' = <<docked>>
  /\ dockRecords' = "none"
  /\ UNCHANGED <<lastScrollY, scrollDirection, currentSlide, scrollY, docked,
                 dockObserver, frameWatcher, iframe, panels, progressOut, parseOut,
                 receiverVars, animVars>>

----------------------------------------------------------------------------
(* Frame watcher and src observer: scrollListener.js, lines 75-83 and 120-150 *)

\* waitForElement finds the story node; the child-list observer is attached
\* (lines 122, 147).
StoryNodeFound ==
  /\ frameWatcher = "polling"
  /\ frameWatcher' = "attached"
  /\ ev' = NoEv
  /\ UNCHANGED <<isDocked, dockStartScroll, lastScrollY, scrollDirection, currentSlide,
                 scrollY, docked, dockObserver, iframe, panels, otherVars>>

\* The story inserts a frame under the story node.
InsertFrame(s) ==
  /\ ~iframe.present
  /\ iframe' = Frame(s)
  /\ ev' = NoEv
  /\ UNCHANGED <<isDocked, dockStartScroll, lastScrollY, scrollDirection, currentSlide,
                 scrollY, docked, dockObserver, frameWatcher, panels, otherVars>>

\* The story removes the frame.
RemoveFrame ==
  /\ iframe.present
  /\ iframe' = NoFrame
  /\ ev' = NoEv
  /\ UNCHANGED <<isDocked, dockStartScroll, lastScrollY, scrollDirection, currentSlide,
                 scrollY, docked, dockObserver, frameWatcher, panels, otherVars>>

\* The story navigates the frame: its src attribute changes.
SetSrc(s) ==
  /\ iframe.present
  /\ s # iframe.src
  /\ iframe' = [iframe EXCEPT !.src = s]
  /\ ev' = NoEv
  /\ UNCHANGED <<isDocked, dockStartScroll, lastScrollY, scrollDirection, currentSlide,
                 scrollY, docked, dockObserver, frameWatcher, panels, otherVars>>

\* A watcher that initialises whatever frame it finds.
NeedsInitWhenPresent(frame) == frame.present

\* Line 125: iframe && !iframe.dataset.observed
NeedsInit(frame) == frame.present /\ ~frame.observed

\* The child-list observer's callback (lines 123-145); it runs after any change
\* of the story node's subtree.
FrameWatcherCallback ==
  /\ frameWatcher = "attached"
  /\ IF NeedsInit(iframe)
     THEN /\ iframe' = [iframe EXCEPT !.observed = TRUE]
          /\ currentSlide' = 0
          /\ ev' = Ev("frame", <<InitMessage>>, FALSE)
     ELSE /\ UNCHANGED <<iframe, currentSlide>>
          /\ ev' = Ev("frame", <<>>, FALSE)
  /\ UNCHANGED <<isDocked, dockStartScroll, lastScrollY, scrollDirection,
                 scrollY, docked, dockObserver, frameWatcher, panels, otherVars>>

\* The src observer's callback (lines 76-82); it runs after any write of the
\* observed frame's src attribute and reads the attribute as it is when it runs.
SrcObserverCallback ==
  /\ iframe.present /\ iframe.observed
  /\ currentSlide' = SrcObserverSlide(iframe.src)
  /\ ev' = Ev("src", <<>>, FALSE)
  /\ UNCHANGED <<isDocked, dockStartScroll, lastScrollY, scrollDirection,
                 scrollY, docked, dockObserver, frameWatcher, iframe, panels, otherVars>>

----------------------------------------------------------------------------
(* ScrollProgressPublisher: scrollListener.js, lines 157-204 *)

\* The user scrolls the window.
WindowScroll(y) ==
  /\ y # scrollY
  /\ scrollY' = y
  /\ ev' = NoEv
  /\ UNCHANGED <<isDocked, dockStartScroll, lastScrollY, scrollDirection, currentSlide,
                 docked, dockObserver, frameWatcher, iframe, panels, otherVars>>

\* A handler that takes an unchanged scrollY for a scroll up.
NextDirectionNotSticky(currentScroll, last, direction) ==
  IF currentScroll > last THEN "down" ELSE "up"

\* Lines 162-167.
NextDirection(currentScroll, last, direction) ==
  IF currentScroll > last THEN "down"
  ELSE IF currentScroll < last THEN "up"
  ELSE direction

\* A tracker that checks the anchor alone.
NotTrackingAnchorOnly(dockedNow, anchor) == anchor = Null

\* Line 170: the handler returns early.
NotTracking(dockedNow, anchor) == ~dockedNow \/ anchor = Null

\* A handler that publishes the tracked index without the fallback check.
SlideTrackedOnly(frame, tracked) == tracked

\* Lines 175-184: the slide index after the fallback check.
SlideAfterFallback(frame, tracked) ==
  IF frame.present
  THEN LET detectedSlide == FallbackSlide(frame.src)
       IN IF detectedSlide # tracked THEN detectedSlide ELSE tracked
  ELSE tracked

\* The scroll event handler (lines 160-203); a scroll event may also arrive
\* with scrollY unchanged.
ScrollHandler ==
  LET currentScroll == scrollY
  IN
  /\ scrollDirection' = NextDirection(currentScroll, lastScrollY, scrollDirection)
  /\ lastScrollY' = currentScroll
  /\ IF NotTracking(isDocked, dockStartScroll)
     THEN /\ currentSlide' = currentSlide
          /\ ev' = Ev("scroll", <<>>, FALSE)
     ELSE IF ~(currentSlide < Len(panels))
     THEN /\ currentSlide' = currentSlide
          /\ ev' = Ev("scroll", <<>>, FALSE)
     ELSE LET slide == SlideAfterFallback(iframe, currentSlide)
          IN /\ currentSlide' = slide
             /\ IF BoundsThrow(panels, slide)
                THEN ev' = Ev("scroll", <<>>, TRUE)
                ELSE LET progress ==
                           getPanelProgress(panels, slide, currentScroll,
                                            Val(dockStartScroll))
                     IN ev' = Ev("scroll",
                                 IF iframe.present
                                 THEN <<ProgressMessage(slide, ToFixed2(progress))>>
                                 ELSE <<>>,
                                 FALSE)
  /\ UNCHANGED <<isDocked, dockStartScroll, scrollY, docked, dockObserver,
                 frameWatcher, iframe, panels, otherVars>>

----------------------------------------------------------------------------
(* The tracker as a whole *)

\* The pure-function results before any is computed.
PureIdle ==
  /\ progressOut = Zero
  /\ parseOut = [observer |-> 0, fallback |-> 0]

\* The record of a handler's run: the event, the calls it made in order,
\* whether it threw, and the slide of the latest message whose handler ran to
\* its end, before this run (prev) and after it (last).
Rx(op, arg, calls, threw, last) ==
  [op |-> op, arg |-> arg, calls |-> calls, threw |-> threw, prev |-> rx.last,
   last |-> last]

\* No call of scrollAnimation has been made.
AnimIdle ==
  /\ animArgs = <<>>
  /\ animDone = <<>>

\* part_001, lines 11-17: the animator's module state as declared.
ReceiverIdle ==
  /\ slides = <<>>
  /\ mapView = Null
  /\ isEmbedded = FALSE
  /\ hashIndexLast = Null
  /\ initPc = "start"
  /\ listeners = {}
  /\ rx = [op |-> "none", arg |-> <<>>, calls |-> <<>>, threw |-> FALSE,
            prev |-> Null, last |-> Null]

Init ==
  /\ isDocked = FALSE
  /\ dockStartScroll = Null
  /\ scrollY \in 0..MaxScroll
  /\ lastScrollY = scrollY
  /\ scrollDirection = "down"
  /\ currentSlide = 0
  /\ docked = FALSE
  /\ dockObserver = "polling"
  /\ frameWatcher = "polling"
  /\ iframe = NoFrame
  /\ panels \in Layouts
  /\ dockSeen = Null
  /\ dockRecords = "none"
  /\ ev = NoEv
  /\ PureIdle
  /\ ReceiverIdle
  /\ AnimIdle

Next ==
  \/ DockTargetFound
  \/ ClassChange
  \/ DockObserverCallback
  \/ StoryNodeFound
  \/ \E s \in SrcSamples : InsertFrame(s)
  \/ RemoveFrame
  \/ \E s \in SrcSamples : SetSrc(s)
  \/ FrameWatcherCallback
  \/ SrcObserverCallback
  \/ \E y \in 0..MaxScroll : WindowScroll(y)
  \/ ScrollHandler

Spec == Init /\ [][Next]_vars

----------------------------------------------------------------------------
(* Properties of the tracker *)

\* C1: at every UNDOCKED->DOCKED transition the anchor becomes the current
\* scrollY when the direction is "down" and keeps its previous value (null if
\* never set) when the direction is "up".
C1_AnchorSetOnDownEntryOnly ==
  [][(~isDocked /\ isDocked') =>
       IF scrollDirection = "down"
       THEN dockStartScroll' = Num(scrollY)
       ELSE dockStartScroll' = dockStartScroll]_vars

\* An entry into dock while scrolling up that kept the anchor of an earlier
\* session, which differs from the scroll position of this entry.
C1_Witness ==
  /\ ev.op = "dock-enter"
  /\ scrollDirection = "up"
  /\ dockStartScroll # Null
  /\ dockStartScroll # Num(scrollY)

\* C2: a scroll event publishes only while docked with an anchor recorded;
\* otherwise it publishes nothing and leaves the tracked slide index as it was.
C2_PublishOnlyWhileTracking ==
  [][ev'.op = "scroll" =>
       IF isDocked /\ dockStartScroll # Null
       THEN TRUE
       ELSE ev'.posted = <<>> /\ currentSlide' = currentSlide]_vars

\* A scroll event handled while undocked with the anchor of an earlier session
\* retained and a frame whose src names another slide than the tracked one.
C2_Witness ==
  /\ ev.op = "scroll"
  /\ ~isDocked
  /\ dockStartScroll # Null
  /\ iframe.present
  /\ FallbackSlide(iframe.src) # currentSlide
  /\ ev.posted = <<>>

\* C4: when the active slide's panel has effective height 0, the progress the
\* scroll handler publishes is 0.
C4_ZeroHeightPublishesZero ==
  (/\ ev.op = "scroll"
   /\ ev.posted # <<>>
   /\ getPanelHeight(panels[currentSlide + 1]) = 0)
  => ev.posted[1].payload.progress = <<[nan |-> FALSE, cents |-> 0]>>

\* C6: after a scroll event handled while docked with an anchor and a frame
\* present, the tracked slide index is the one parsed from the frame's src.
C6_FallbackWins ==
  [][(ev'.op = "scroll" /\ isDocked /\ dockStartScroll # Null /\ iframe.present)
       => currentSlide' = FallbackSlide(iframe.src)]_vars

----------------------------------------------------------------------------
(* getPanelProgress on its own: every panel list, slide, anchor and scrollY *)

Spacings == {0, 1}

\* The i-th of n panels: the first carries "first", the last "last".
PanelClass(i, n) == IF i = 1 THEN "first" ELSE IF i = n THEN "last" ELSE "mid"

PanelLists ==
  UNION { { [i \in 1..n |-> Panel(PanelClass(i, n), hs[i], m)] :
              hs \in [1..n -> 0..MaxOffsetHeight], m \in Spacings } :
          n \in 1..MaxPanels }

InitProgress ==
  /\ panels \in PanelLists
  /\ currentSlide \in 0..(Len(panels) - 1)
  /\ dockStartScroll \in {Num(a) : a \in 0..MaxScroll}
  /\ isDocked = TRUE
  /\ scrollY = 0
  /\ lastScrollY = 0
  /\ scrollDirection = "down"
  /\ docked = TRUE
  /\ dockObserver = "attached"
  /\ frameWatcher = "attached"
  /\ iframe = NoFrame
  /\ dockSeen = Null
  /\ dockRecords = "none"
  /\ ev = NoEv
  /\ PureIdle
  /\ ReceiverIdle
  /\ AnimIdle

\* getPanelProgress(panels, currentSlide, y) with the anchor as recorded.
ComputeProgress(y) ==
  /\ scrollY' = y
  /\ progressOut' = getPanelProgress(panels, currentSlide, y, Val(dockStartScroll))
  /\ ev' = Ev("progress", <<>>, FALSE)
  /\ UNCHANGED <<isDocked, dockStartScroll, lastScrollY, scrollDirection, currentSlide,
                 docked, dockObserver, frameWatcher, iframe, panels, dockSeen,
                 dockRecords, parseOut, receiverVars, animVars>>

NextProgress == \E y \in 0..MaxProgressScroll : ComputeProgress(y)

SpecProgress == InitProgress /\ [][NextProgress]_vars

PositiveHeights == \A i \in 1..Len(panels) : getPanelHeight(panels[i]) > 0

\* start and end of the tracked slide as the specification defines them.
SlideStart ==
  Val(dockStartScroll) + SumHeights(panels, currentSlide)

SlideEnd == SlideStart + getPanelHeight(panels[currentSlide + 1])

ProgressClamped ==
  /\ ~progressOut.nan
  /\ 0 <= progressOut.num /\ progressOut.num <= progressOut.den
  /\ scrollY <= SlideStart => progressOut = Zero
  /\ scrollY >= SlideEnd => progressOut = One

\* C3: with positive panel heights getPanelProgress is monotonic non-decreasing
\* in scrollY, exactly 0 at and below start, exactly 1 at and above end, and
\* within [0,1] everywhere.
C3_ProgressMonotonicClamped ==
  [][(ev'.op = "progress" /\ PositiveHeights) =>
       /\ ProgressClamped'
       /\ (ev.op = "progress" /\ scrollY <= scrollY') => Leq(progressOut, progressOut')]_vars

\* A progress strictly between 0 and 1, computed for a slide that is not the
\* first, of a list of positive heights.
C3_Witness ==
  /\ ev.op = "progress"
  /\ PositiveHeights
  /\ currentSlide > 0
  /\ SlideStart < scrollY /\ scrollY < SlideEnd
  /\ progressOut.num > 0 /\ progressOut.num < progressOut.den

----------------------------------------------------------------------------
(* The two src parsers on their own: every src string up to MaxSrcLen *)

SrcAlphabet == {"#", "a", "3", "1", "-", "+", " "}

SrcStrings == UNION { [1..n -> SrcAlphabet] : n \in 0..MaxSrcLen }

InitParse ==
  /\ iframe \in {Frame(s) : s \in SrcStrings}
  /\ isDocked = FALSE
  /\ dockStartScroll = Null
  /\ scrollY = 0
  /\ lastScrollY = 0
  /\ scrollDirection = "down"
  /\ currentSlide = 0
  /\ docked = FALSE
  /\ dockObserver = "attached"
  /\ frameWatcher = "attached"
  /\ panels \in Layouts
  /\ dockSeen = Null
  /\ dockRecords = "none"
  /\ ev = NoEv
  /\ PureIdle
  /\ ReceiverIdle
  /\ AnimIdle

\* Both parsers read the frame's src.
ParseSrc ==
  /\ parseOut' = [observer |-> SrcObserverSlide(iframe.src),
                  fallback |-> FallbackSlide(iframe.src)]
  /\ ev' = Ev("parse", <<>>, FALSE)
  /\ UNCHANGED <<isDocked, dockStartScroll, lastScrollY, scrollDirection, currentSlide,
                 scrollY, docked, dockObserver, frameWatcher, iframe, panels,
                 dockSeen, dockRecords, progressOut, receiverVars, animVars>>

NextParse == ParseSrc

SpecParse == InitParse /\ [][NextParse]_vars

\* The segment of s after its last "#", and whether s has a "#" at all.
HashPositions(s) == {i \in 1..Len(s) : s[i] = "#"}
LastHash(s) == CHOOSE i \in HashPositions(s) : \A j \in HashPositions(s) : j <= i
LastSegment(s) == SubSeq(s, LastHash(s) + 1, Len(s))

\* seg is an optional sign followed by digits only.
IsInteger(seg) ==
  LET body == IF seg # <<>> /\ seg[1] \in {"-", "+"} THEN Tail(seg) ELSE seg
  IN body # <<>> /\ \A i \in 1..Len(body) : body[i] \in Digits

Pow10(k) == IF k = 0 THEN 1 ELSE IF k = 1 THEN 10 ELSE IF k = 2 THEN 100
            ELSE IF k = 3 THEN 1000 ELSE 10000

SumOver(f, n) ==
  LET S[k \in 0..n] == IF k = 0 THEN 0 ELSE S[k - 1] + f[k] IN S[n]

\* The value of an optional sign followed by digits.
IntegerValue(seg) ==
  LET neg == seg[1] = "-"
      body == IF seg[1] \in {"-", "+"} THEN Tail(seg) ELSE seg
      n == Len(body)
      mag == SumOver([k \in 1..n |-> DigitVal(body[k]) * Pow10(n - k)], n)
  IN IF neg THEN -mag ELSE mag

\* The index the specification's three cases give: the integer after the last
\* "#" when the segment is one, 0 otherwise.
ClaimedIndex(s) ==
  IF HashPositions(s) = {} THEN 0
  ELSE IF IsInteger(LastSegment(s)) THEN IntegerValue(LastSegment(s))
  ELSE 0

\* The longest prefix of seg, after leading blanks, that is an integer.
LeadingInteger(seg) ==
  LET blanks == {i \in 0..Len(seg) : \A j \in 1..i : seg[j] = " "}
      b == CHOOSE i \in blanks : \A j \in blanks : j <= i
      rest == SubSeq(seg, b + 1, Len(seg))
      ints == {k \in 1..Len(rest) : IsInteger(SubSeq(rest, 1, k))}
  IN IF ints = {} THEN <<>>
     ELSE SubSeq(rest, 1, CHOOSE k \in ints : \A j \in ints : j <= k)

\* The index by the parseInt rule: the integer that starts the segment after
\* the last "#" counts, whatever follows it.
LeadingIndex(s) ==
  IF HashPositions(s) = {} THEN 0
  ELSE IF LeadingInteger(LastSegment(s)) = <<>> THEN 0
  ELSE IntegerValue(LeadingInteger(LastSegment(s)))

\* C5 as stated: both parsers give the integer after the last "#" when that
\* segment is numeric, 0 when there is no "#", and 0 when the segment is not a
\* number.
C5_ParsersGiveClaimedIndex ==
  ev.op = "parse" =>
    /\ parseOut.observer = parseOut.fallback
    /\ parseOut.observer = ClaimedIndex(iframe.src)

\* C5 as amended: both parsers give the same index, which is the integer that
\* starts the segment after the last "#" (blanks skipped, a sign accepted,
\* trailing characters ignored), 0 when there is no "#" and 0 when the segment
\* starts with no integer.
C5_ParsersAgreeOnLeadingInteger ==
  ev.op = "parse" =>
    /\ parseOut.observer = parseOut.fallback
    /\ parseOut.observer = LeadingIndex(iframe.src)

\* A src with two "#" whose last segment is the integer 3.
C5_Witness ==
  /\ ev.op = "parse"
  /\ Cardinality(HashPositions(iframe.src)) = 2
  /\ LastSegment(iframe.src) = <<"3">>
  /\ parseOut.observer = 3
  /\ parseOut.fallback = 3

----------------------------------------------------------------------------
(* The map animator: part_001 *)

Undefined == <<>>

\* A choreography of n slides; slide i is the i-th object of the JSON array.
Choreography(n) == [i \in 1..n |-> [id |-> i - 1]]

Choreographies == {Choreography(n) : n \in 1..MaxSlides}

\* slides[i] for an index i that may be undefined (or NaN): undefined outside
\* the array.
SlideAt(ss, i) ==
  IF i # Undefined /\ 0 <= Val(i) /\ Val(i) < Len(ss) THEN <<ss[Val(i) + 1]>>
  ELSE Undefined

\* payload.slide + 1 (NaN when payload.slide is undefined)
PlusOne(i) == IF i = Undefined THEN NaN ELSE Num(Val(i) + 1)

\* How a fetch of the choreography can end.
FetchOutcomes ==
  {[kind |-> k, body |-> <<>>] : k \in {"rejected", "not-ok", "bad-json"}}
    \cup {[kind |-> "ok", body |-> c] : c \in Choreographies}

\* A loader that logs a failure and returns the slides it has.
loadChoreographySwallowing(outcome, held) ==
  IF outcome.kind = "ok" THEN [threw |-> FALSE, slides |-> outcome.body]
  ELSE [threw |-> FALSE, slides |-> held]

\* loadChoreography (lines 19-30): fetch rejects, or the response is not ok,
\* or response.json() rejects: the catch block logs and rethrows, and slides
\* keeps the value it held. Otherwise slides is assigned and returned.
loadChoreography(outcome, held) ==
  IF outcome.kind = "ok" THEN [threw |-> FALSE, slides |-> outcome.body]
  ELSE [threw |-> TRUE, slides |-> held]

\* The calls the handlers make into the animation modules.
ScrollCall(cur, next, progress) ==
  [fn |-> "scrollAnimation", slide |-> cur, next |-> next, progress |-> progress,
   embedded |-> FALSE]
SlideCall(cur, embedded) ==
  [fn |-> "slideAnimation", slide |-> cur, next |-> Undefined, progress |-> Undefined,
   embedded |-> embedded]

\* scrollAnimation (animateOnScroll.js, lines 21-32) starts with
\* Object.keys(slideCurrent), which throws a TypeError on undefined; every
\* handler it then runs is inside a try/catch.
scrollAnimationThrows(slideCurrent) == slideCurrent = Undefined

\* initMapAnimator up to its await (lines 167-176): configureMap throws when
\* the map container is missing, and the catch block rethrows; otherwise the
\* view-ready listener is installed and the load is started.
InitMapAnimator(containerFound) ==
  /\ initPc = "start"
  /\ IF containerFound
     THEN /\ initPc' = "loading"
          /\ listeners' = listeners \cup {"arcgisViewReadyChange"}
          /\ rx' = Rx("init", <<>>, <<>>, FALSE, rx.last)
     ELSE /\ initPc' = "rejected"
          /\ listeners' = listeners
          /\ rx' = Rx("init", <<>>, <<>>, TRUE, rx.last)
  /\ UNCHANGED <<slides, mapView, isEmbedded, hashIndexLast>>
  /\ UNCHANGED <<trackerVars, progressOut, parseOut, animVars>>

\* initMapAnimator after its await (lines 176-183).
LoadSettles(outcome) ==
  /\ initPc = "loading"
  /\ LET loaded == loadChoreography(outcome, slides)
     IN IF loaded.threw
        THEN /\ initPc' = "rejected"
             /\ slides' = loaded.slides
             /\ listeners' = listeners
             /\ rx' = Rx("load", outcome.kind, <<>>, TRUE, rx.last)
        ELSE /\ initPc' = "ready"
             /\ slides' = loaded.slides
             /\ listeners' = listeners \cup {"hashchange", "message"}
             /\ rx' = Rx("load", outcome.kind, <<>>, FALSE, rx.last)
  /\ UNCHANGED <<mapView, isEmbedded, hashIndexLast>>
  /\ UNCHANGED <<trackerVars, progressOut, parseOut, animVars>>

\* The map element reports its view ready (lines 68-70 and 171-174).
ViewReady ==
  /\ "arcgisViewReadyChange" \in listeners
  /\ mapView' = <<"view">>
  /\ rx' = Rx("viewReady", <<>>, <<SlideCall(SlideAt(slides, Num(0)), isEmbedded)>>,
              FALSE, rx.last)
  /\ UNCHANGED <<slides, isEmbedded, hashIndexLast, initPc, listeners>>
  /\ UNCHANGED <<trackerVars, progressOut, parseOut, animVars>>

\* The location hashes the page is navigated to.
HashSamples ==
  { <<>>, <<"#", "0">>, <<"#", "1">>, <<"#", "a">>, <<"#", "9">>, <<"#", "-", "1">> }

\* window.location.hash.substring(1)
Substring1(h) == IF h = <<>> THEN <<>> ELSE Tail(h)

\* A hashchange event; the handler of lines 106-117 runs when installed.
HashChange(h) ==
  /\ IF "hashchange" \in listeners
     THEN LET hashIndex == ParseInt10(Substring1(h))
          IN IF hashIndex = NaN \/ SlideAt(slides, hashIndex) = Undefined
             THEN rx' = Rx("hashchange", h, <<>>, FALSE, rx.last)
             ELSE rx' = Rx("hashchange", h,
                           <<SlideCall(SlideAt(slides, hashIndex), isEmbedded)>>,
                           FALSE, rx.last)
     ELSE rx' = Rx("hashchange", h, <<>>, FALSE, rx.last)
  /\ UNCHANGED <<slides, mapView, isEmbedded, hashIndexLast, initPc, listeners>>
  /\ UNCHANGED <<trackerVars, progressOut, parseOut, animVars>>

\* A receiver that takes a slide only when it is further on than the last.
SlideAdvanced(slide, last) == last = Null \/ Val(slide) > Val(last)

\* A receiver that applies the slide on every message.
SlideAlwaysChanged(slide, last) == TRUE

\* Line 148: payload.slide !== hashIndexLast
SlideChanged(slide, last) == slide # last

\* A receiver that accepts every envelope.
AnySource(source) == TRUE

\* Line 128: the envelope is the controller's.
FromController(source) == source = Controller

\* A message event; the handler of lines 127-152 runs when installed.
MessageEvent(e) ==
  /\ IF "message" \notin listeners \/ ~FromController(e.source)
     THEN /\ UNCHANGED <<isEmbedded, hashIndexLast>>
          /\ rx' = Rx("message", e, <<>>, FALSE, rx.last)
     ELSE LET payload == e.payload
              slideCurrent == SlideAt(slides, payload.slide)
              slideNext == SlideAt(slides, PlusOne(payload.slide))
              scrollCall == ScrollCall(slideCurrent, slideNext, payload.progress)
          IN /\ isEmbedded' = payload.isEmbedded
             /\ IF scrollAnimationThrows(slideCurrent)
                THEN /\ hashIndexLast' = hashIndexLast
                     /\ rx' = Rx("message", e, <<scrollCall>>, TRUE, rx.last)
                ELSE IF SlideChanged(payload.slide, hashIndexLast)
                THEN /\ hashIndexLast' = payload.slide
                     /\ rx' = Rx("message", e,
                                 <<scrollCall, SlideCall(slideCurrent, isEmbedded')>>,
                                 FALSE, payload.slide)
                ELSE /\ hashIndexLast' = hashIndexLast
                     /\ rx' = Rx("message", e, <<scrollCall>>, FALSE, payload.slide)
  /\ UNCHANGED <<slides, mapView, initPc, listeners>>
  /\ UNCHANGED <<trackerVars, progressOut, parseOut, animVars>>

\* The progress strings of the messages: "NaN", "0.00", "0.50", "1.00".
FixedSamples ==
  {[nan |-> TRUE, cents |-> 0]} \cup {[nan |-> FALSE, cents |-> c] : c \in {0, 50, 100}}

\* The payloads of the protocol: {isEmbedded} and
\* {type: "progress", slide, progress, isEmbedded}.
Payloads ==
  {[type |-> "undefined", slide |-> Undefined, progress |-> Undefined, isEmbedded |-> b] :
     b \in BOOLEAN}
    \cup {[type |-> "progress", slide |-> Num(s), progress |-> <<f>>, isEmbedded |-> TRUE] :
            s \in 0..MaxSlides, f \in FixedSamples}

Envelopes == [source : {Controller, "other"}, payload : Payloads]

InitReceiver ==
  /\ isDocked = FALSE
  /\ dockStartScroll = Null
  /\ scrollY = 0
  /\ lastScrollY = 0
  /\ scrollDirection = "down"
  /\ currentSlide = 0
  /\ docked = FALSE
  /\ dockObserver = "polling"
  /\ frameWatcher = "polling"
  /\ iframe = NoFrame
  /\ panels \in Layouts
  /\ dockSeen = Null
  /\ dockRecords = "none"
  /\ ev = NoEv
  /\ PureIdle
  /\ ReceiverIdle
  /\ AnimIdle

NextReceiver ==
  \/ \E found \in BOOLEAN : InitMapAnimator(found)
  \/ \E outcome \in FetchOutcomes : LoadSettles(outcome)
  \/ ViewReady
  \/ \E h \in HashSamples : HashChange(h)
  \/ \E e \in Envelopes : MessageEvent(e)

SpecReceiver == InitReceiver /\ [][NextReceiver]_vars

----------------------------------------------------------------------------
(* Properties of the map animator *)

\* The last event was a progress message of the controller, naming a slide of
\* the loaded choreography, and the message listener handled it.
HandledProgress ==
  /\ rx.op = "message"
  /\ "message" \in listeners
  /\ rx.arg.source = Controller
  /\ rx.arg.payload.type = "progress"
  /\ SlideAt(slides, rx.arg.payload.slide) # Undefined

CallsOf(fn) == {i \in 1..Len(rx.calls) : rx.calls[i].fn = fn}

\* C7: a message whose source is not "storymap-controller" changes neither
\* isEmbedded nor hashIndexLast and invokes neither animation.
C7_ForeignSourceIgnored ==
  [][(rx'.op = "message" /\ rx'.arg.source # Controller) =>
       /\ isEmbedded' = isEmbedded
       /\ hashIndexLast' = hashIndexLast
       /\ rx'.calls = <<>>]_vars

\* A foreign progress message for a loaded slide other than the recorded one,
\* carrying isEmbedded = true, left the receiver not embedded and made no call.
C7_Witness ==
  /\ rx.op = "message"
  /\ "message" \in listeners
  /\ rx.arg.source = "other"
  /\ rx.arg.payload.type = "progress"
  /\ SlideAt(slides, rx.arg.payload.slide) # Undefined
  /\ rx.arg.payload.slide # hashIndexLast
  /\ ~isEmbedded
  /\ rx.calls = <<>>

\* C8: after a progress message for a loaded slide, the recorded slide is the
\* message's and the scroll animation ran with the message's slide, the slide
\* after it and the message's progress, whatever was received before.
C8_LastWriteWins ==
  HandledProgress =>
    /\ hashIndexLast = rx.arg.payload.slide
    /\ CallsOf("scrollAnimation") # {}
    /\ rx.calls[1] = ScrollCall(SlideAt(slides, rx.arg.payload.slide),
                                SlideAt(slides, PlusOne(rx.arg.payload.slide)),
                                rx.arg.payload.progress)

\* Slide 2 then slide 1: the receiver records slide 1.
C8_Witness ==
  /\ HandledProgress
  /\ rx.prev = Num(2)
  /\ rx.arg.payload.slide = Num(1)
  /\ hashIndexLast = Num(1)

\* C9: on a progress message the scroll animation runs first, and the slide is
\* applied discretely, after it, exactly when the message's slide differs from
\* the slide of the message handled before it (or none was).
C9_SlideAppliedOnChangeOnly ==
  HandledProgress =>
    /\ CallsOf("scrollAnimation") = {1}
    /\ IF rx.arg.payload.slide # rx.prev
       THEN /\ CallsOf("slideAnimation") = {2}
            /\ rx.calls[2].slide = SlideAt(slides, rx.arg.payload.slide)
       ELSE CallsOf("slideAnimation") = {}

\* A second message for the same slide: interpolation only.
C9_Witness ==
  /\ HandledProgress
  /\ rx.prev # Null
  /\ rx.arg.payload.slide = rx.prev
  /\ Len(rx.calls) = 1
  /\ rx.calls[1].fn = "scrollAnimation"

\* C10: a failed load makes loadChoreography throw and initMapAnimator reject;
\* from then on the hash and message listeners are not installed and no
\* message or hash change makes a call into the animation modules.
C10_LoadFailureAbortsInit ==
  [][/\ (rx'.op = "load" /\ rx'.arg # "ok") => (rx'.threw /\ initPc' = "rejected")
     /\ (initPc = "rejected") =>
          /\ initPc' = "rejected"
          /\ listeners' \cap {"hashchange", "message"} = {}
          /\ (rx'.op \in {"message", "hashchange"}) => (rx'.calls = <<>>)]_vars

\* The load failed after the map was configured, and a progress message of
\* the controller arrived afterwards and made no call.
C10_Witness ==
  /\ initPc = "rejected"
  /\ "arcgisViewReadyChange" \in listeners
  /\ rx.op = "message"
  /\ rx.arg.source = Controller
  /\ rx.arg.payload.type = "progress"
  /\ rx.calls = <<>>

----------------------------------------------------------------------------
(* Further properties of the tracker *)

DockOps == {"dock-enter", "dock-leave", "dock-same"}

\* C16: the slide index the scroll handler hands to getPanelScrollBounds is an
\* index of the panel list, so the handler raises no error.
C16_BoundsIndexInRange ==
  ev.op = "scroll" => ~ev.threw

\* C17: the tracked slide index is never negative.
C17_SlideIndexNonNegative ==
  currentSlide >= 0

\* The progress of slide i at scrollY, from the anchor and the panel heights.
ExpectedFixed(i) ==
  LET start == Val(dockStartScroll) + SumHeights(panels, i)
      height == getPanelHeight(panels[i + 1])
  IN ToFixed2(ClampedQuotient(scrollY - start, height))

\* C18: a published progress message names the slide parsed from the frame's
\* src at that scroll event, and carries the progress of that slide at that
\* event's scrollY.
C18_MessageCarriesCurrentState ==
  (ev.op = "scroll" /\ ev.posted # <<>>) =>
    LET payload == ev.posted[1].payload
    IN /\ payload.type = "progress"
       /\ payload.slide = Num(LeadingIndex(iframe.src))
       /\ payload.progress = <<ExpectedFixed(LeadingIndex(iframe.src))>>

\* A message for slide 1, part of the way through it, published for a frame
\* whose src observer was never attached.
C18_Witness ==
  /\ ev.op = "scroll"
  /\ ev.posted # <<>>
  /\ ~iframe.observed
  /\ ev.posted[1].payload.slide = Num(1)
  /\ ~ev.posted[1].payload.progress[1].nan
  /\ ev.posted[1].payload.progress[1].cents > 0
  /\ ev.posted[1].payload.progress[1].cents < 100

C20_DockCallbackIdempotent ==
  [][(ev'.op \in DockOps /\ dockSeen = <<docked>>) =>
       /\ isDocked' = isDocked
       /\ dockStartScroll' = dockStartScroll]_vars

\* A second callback while docked, after the window was scrolled further down
\* from the anchor.
C20_Witness ==
  /\ ev.op = "dock-same"
  /\ isDocked
  /\ scrollDirection = "down"
  /\ dockStartScroll # Null
  /\ lastScrollY > Val(dockStartScroll)
  /\ scrollY > Val(dockStartScroll)

----------------------------------------------------------------------------
(* Numbers of the interpolation engine: animateOnScroll.js, lines 48-51 *)

\* JavaScript numbers are binary floating point: every result of +, - and * is
\* rounded to the nearest number with PrecisionBits significant bits, ties to
\* the even significand.  The format is narrowed to PrecisionBits bits and to
\* whole numbers.
PrecisionBits == 3

RECURSIVE Pow2(_)
Pow2(n) == IF n = 0 THEN 1 ELSE 2 * Pow2(n - 1)

\* The exponent of n: the least e with |n| < 2^(PrecisionBits + e).
RECURSIVE ExponentFrom(_, _)
ExponentFrom(n, e) ==
  IF Abs(n) < Pow2(PrecisionBits + e) THEN e ELSE ExponentFrom(n, e + 1)

Exponent(n) == ExponentFrom(n, 0)

Significand(n) == Abs(n) \div Pow2(Exponent(n))

\* n/d (n >= 0, d > 0) rounded to the nearest float, ties to even: the floats
\* on either side of n/d are lo and hi.
RoundPositive(n, d) ==
  LET unit == Pow2(Exponent(n \div d))
      lo == ((n \div d) \div unit) * unit
      hi == lo + unit
  IN IF 2 * n < (lo + hi) * d THEN lo
     ELSE IF 2 * n > (lo + hi) * d THEN hi
     ELSE IF Significand(lo) % 2 = 0 THEN lo ELSE hi

\* num/den (den > 0) rounded to the nearest float, ties to even.
RoundRatio(num, den) ==
  IF num < 0 THEN -RoundPositive(-num, den) ELSE RoundPositive(num, den)

\* A number of the choreography JSON, as the parser gives it.
Fl(n) == RoundRatio(n, 1)

\* Math.max(0, Math.min(1, progress)) for progress in hundredths (line 49);
\* NaN stays NaN.
Clamp01(progress) ==
  IF progress.nan THEN progress
  ELSE [nan |-> FALSE,
        cents |-> IF progress.cents < 0 THEN 0
                  ELSE IF progress.cents > 100 THEN 100 ELSE progress.cents]

\* easeInOut(t) = t < 0.5 ? 2*t*t : -1 + (4 - 2*t)*t, as a quotient (line 48).
easeInOut(t) ==
  IF t.nan THEN NotANumber
  ELSE IF t.cents < 50
       THEN [nan |-> FALSE, num |-> 2 * t.cents * t.cents, den |-> 100 * 100]
       ELSE [nan |-> FALSE,
             num |-> (400 - 2 * t.cents) * t.cents - 100 * 100,
             den |-> 100 * 100]

\* a + (b - a) * t on numbers, each operation rounded (line 51).
FloatLerp(a, b, t) ==
  LET difference == RoundRatio(b - a, 1)
      product == RoundRatio(difference * t.num, t.den)
  IN RoundRatio(a + product, 1)

\* lerp(a, b, t) on values that may be undefined (line 51).
lerp(a, b, t) ==
  IF a = Undefined \/ b = Undefined THEN (IF a # Undefined THEN a ELSE b)
  ELSE IF t.nan THEN NaN
  ELSE Num(FloatLerp(Val(a), Val(b), t))

----------------------------------------------------------------------------
(* Slides and the context of a call: animateOnScroll.js, lines 21-22 *)

\* A slide of the choreography: its own keys in their JSON order, and the
\* values of the three keys that have handlers (Undefined when the key is
\* missing or null).
Slide(keys, viewpoint, timeSlider, environment) ==
  [keys |-> keys, viewpoint |-> viewpoint, timeSlider |-> timeSlider,
   environment |-> environment]

\* choreographyHandlers (lines 10-14)
choreographyHandlers == {"viewpoint", "timeSlider", "environment"}

\* animationConfig.mapFit (configAnimation.js, line 10)
mapFit == "scale"

\* What a handler leaves behind: whether it threw, its goTo calls, and the view
\* and the slider as it leaves them.
Handled(threw, goTo, view, slider) ==
  [threw |-> threw, goTo |-> goTo, mapView |-> view, timeSlider |-> slider]

\* A handler that navigates to nowhere as it returns.
ReturnsWithGoTo(context) ==
  Handled(FALSE, <<[kind |-> "viewpoint", target |-> Undefined]>>,
          context.mapView, context.timeSlider)

\* A handler that returns without touching anything (lines 58, 80, 139).
Returns(context) ==
  Handled(FALSE, <<>>, context.mapView, context.timeSlider)

\* A handler that throws before touching anything.
Throws(context) ==
  Handled(TRUE, <<>>, context.mapView, context.timeSlider)

----------------------------------------------------------------------------
(* interpolateViewpoint: animateOnScroll.js, lines 39-111 *)

\* The interpolated camera (lines 60-69).
interpolatedCamera(currentCamera, nextCamera, u) ==
  [x |-> lerp(currentCamera.position[1].x, nextCamera.position[1].x, u),
   y |-> lerp(currentCamera.position[1].y, nextCamera.position[1].y, u),
   z |-> lerp(currentCamera.position[1].z, nextCamera.position[1].z, u),
   heading |-> lerp(currentCamera.heading, nextCamera.heading, u),
   tilt |-> lerp(currentCamera.tilt, nextCamera.tilt, u)]

\* The interpolated viewpoint (lines 82-92).
viewpointJSON(currentViewpoint, nextViewpoint, u) ==
  [rotation |-> lerp(currentViewpoint.rotation, nextViewpoint.rotation, u),
   scale |-> lerp(currentViewpoint.scale, nextViewpoint.scale, u),
   xmin |-> lerp(currentViewpoint.targetGeometry[1].xmin,
                 nextViewpoint.targetGeometry[1].xmin, u),
   ymin |-> lerp(currentViewpoint.targetGeometry[1].ymin,
                 nextViewpoint.targetGeometry[1].ymin, u),
   xmax |-> lerp(currentViewpoint.targetGeometry[1].xmax,
                 nextViewpoint.targetGeometry[1].xmax, u),
   ymax |-> lerp(currentViewpoint.targetGeometry[1].ymax,
                 nextViewpoint.targetGeometry[1].ymax, u)]

\* The target handed to goTo in a 2D view (lines 100-105): the whole viewpoint
\* when mapFit is "scale", else its geometry and rotation.
FitTarget(json) ==
  IF mapFit = "scale" THEN json
  ELSE [rotation |-> json.rotation, scale |-> Undefined, xmin |-> json.xmin,
        ymin |-> json.ymin, xmax |-> json.xmax, ymax |-> json.ymax]

interpolateViewpoint(context) ==
  LET slideCurrent == context.slideCurrent[1]
      slideNext == context.slideNext
      view == context.mapView
  IN IF slideCurrent.viewpoint = Undefined
     THEN Throws(context)                                      \* line 45
     ELSE IF slideNext # Undefined /\ slideNext[1].viewpoint = Undefined
     THEN Throws(context)                                      \* line 46
     ELSE
       LET currentViewpoint == slideCurrent.viewpoint[1]
           nextViewpoint == IF slideNext = Undefined THEN Undefined
                            ELSE slideNext[1].viewpoint
           currentCamera == currentViewpoint.camera
           nextCamera == IF nextViewpoint = Undefined THEN Undefined
                         ELSE nextViewpoint[1].camera
           u == easeInOut(Clamp01(context.progress))
           is3DView == view # Null /\ view[1].camera
       IN IF is3DView /\ (currentCamera # Undefined \/ nextCamera # Undefined)
          THEN IF currentCamera = Undefined \/ nextCamera = Undefined
               THEN Returns(context)                           \* line 58
               ELSE IF \/ currentCamera[1].position = Undefined
                       \/ nextCamera[1].position = Undefined
               THEN Throws(context)                            \* lines 62-65
               ELSE Handled(FALSE,
                            <<[kind |-> "camera",
                               target |-> <<interpolatedCamera(currentCamera[1],
                                                               nextCamera[1], u)>>]>>,
                            view, context.timeSlider)
          ELSE IF nextViewpoint = Undefined
          THEN Returns(context)                                \* line 80
          ELSE IF \/ currentViewpoint.targetGeometry = Undefined
                  \/ nextViewpoint[1].targetGeometry = Undefined
          THEN Throws(context)                                 \* lines 86-90
          ELSE IF view = Null
          THEN Throws(context)                                 \* line 108
          ELSE Handled(FALSE,
                       <<[kind |-> "viewpoint",
                          target |-> <<FitTarget(viewpointJSON(currentViewpoint,
                                                               nextViewpoint[1], u))>>]>>,
                       view, context.timeSlider)

----------------------------------------------------------------------------
(* interpolateTimeSlider: animateOnScroll.js, lines 118-160 *)

\* unitToMs[unit] || 0 (lines 127-138)
unitToMs(unit) ==
  CASE unit = "milliseconds" -> 1
    [] unit = "seconds" -> 1000
    [] unit = "minutes" -> 60 * 1000
    [] unit = "hours" -> 60 * 60 * 1000
    [] unit = "days" -> 24 * 60 * 60 * 1000
    [] unit = "weeks" -> 7 * 24 * 60 * 60 * 1000
    [] unit = "months" -> 30 * 24 * 60 * 60 * 1000
    [] unit = "years" -> 365 * 24 * 60 * 60 * 1000
    [] OTHER -> 0

RECURSIVE GCD(_, _)
GCD(a, b) == IF b = 0 THEN a ELSE GCD(b, a % b)

\* Math.ceil(num / den) for den > 0
Ceil(num, den) == -((-num) \div den)

\* Math.floor(offset / stepMs) in place of Math.ceil.
SnapStepsDown(duration, cents, stepMs) ==
  LET g == GCD(Abs(duration), stepMs)
  IN ((duration \div g) * cents) \div (100 * (stepMs \div g))

\* Math.ceil(offset / stepMs), where offset = duration * progress and progress
\* is cents/100 (lines 142-143); the quotient is reduced by the common divisor
\* of duration and stepMs before it is rounded up.
SnapSteps(duration, cents, stepMs) ==
  LET g == GCD(Abs(duration), stepMs)
  IN Ceil((duration \div g) * cents, 100 * (stepMs \div g))

\* Math.min(Math.max(snappedTime, start), end) (lines 147-150)
clampedTime(snappedTime, start, end) ==
  LET atLeastStart == IF snappedTime > start THEN snappedTime ELSE start
  IN IF atLeastStart < end THEN atLeastStart ELSE end

\* An arcgis-time-slider element that is playing, with no extent yet.
Slider == [timeExtent |-> Null, playing |-> TRUE]

\* The handler has its own try/catch (lines 119, 156-158): a null timeSlider
\* value of the slide, or a missing slider element, ends it without an error.
\* Instants are in milliseconds.
interpolateTimeSlider(context) ==
  LET slideTimeData == context.slideCurrent[1].timeSlider
  IN IF slideTimeData = Undefined
     THEN Returns(context)                                     \* line 121
     ELSE
       LET start == slideTimeData[1].timeSliderStart
           end == slideTimeData[1].timeSliderEnd
           stepMs == slideTimeData[1].timeSliderStep
                       * unitToMs(slideTimeData[1].timeSliderUnit)
           progress == context.progress
       IN IF stepMs <= 0
          THEN Returns(context)                                \* line 139
          ELSE IF context.timeSlider = Null
          THEN Returns(context)                                \* line 151
          ELSE
            LET instant ==
                  IF progress.nan THEN NaN
                  ELSE Num(clampedTime(
                             start + SnapSteps(end - start, progress.cents, stepMs)
                                       * stepMs,
                             start, end))
            IN Handled(FALSE, <<>>, context.mapView,
                       <<[timeExtent |-> <<[start |-> Null, end |-> instant]>>,
                          playing |-> FALSE]>>)

----------------------------------------------------------------------------
(* interpolateEnvironment: animateOnScroll.js, lines 166-225 *)

\* n/d truncated towards zero (new Date of a fractional time value)
Truncated(n, d) == IF n < 0 THEN -((-n) \div d) ELSE n \div d

\* The next slide's instant whatever the progress.
LightingOfNext(fromVal, toVal, progress) == Num(toVal)

\* new Date(fromVal + (toVal - fromVal) * progress) for two instants
\* (lines 169, 176-179, 214)
interpolatedLighting(fromVal, toVal, progress) ==
  IF progress.nan THEN NaN
  ELSE Num(Truncated(fromVal * 100 + (toVal - fromVal) * progress.cents, 100))

\* interpolate(c0, c1) when both are given, else the current slide's value
\* (lines 182-192)
interpolatedCloudCover(c0, c1, progress) ==
  IF c0 = Undefined \/ c1 = Undefined THEN c0
  ELSE IF progress.nan THEN NaN
  ELSE Num(FloatLerp(Val(c0), Val(c1),
                     [nan |-> FALSE, num |-> progress.cents, den |-> 100]))

interpolateEnvironment(context) ==
  LET currentEnv == context.slideCurrent[1].environment
      nextEnv == IF context.slideNext = Undefined THEN Undefined
                 ELSE context.slideNext[1].environment
      view == context.mapView
  IN IF currentEnv = Undefined \/ nextEnv = Undefined
     THEN Returns(context)                                     \* line 171
     ELSE IF currentEnv[1].lighting = Undefined \/ nextEnv[1].lighting = Undefined
     THEN Throws(context)                                      \* lines 174-175
     ELSE IF currentEnv[1].weather = Undefined \/ nextEnv[1].weather = Undefined
     THEN Throws(context)                                      \* lines 182, 208
     ELSE IF view = Null
     THEN Throws(context)                                      \* line 211
     ELSE Handled(FALSE, <<>>,
                  <<[view[1] EXCEPT !.environment =
                       <<[lightingType |-> nextEnv[1].lighting[1].type,
                          date |-> interpolatedLighting(
                                     currentEnv[1].lighting[1].datetime,
                                     nextEnv[1].lighting[1].datetime,
                                     context.progress),
                          atmosphereEnabled |-> currentEnv[1].atmosphereEnabled,
                          weatherType |-> nextEnv[1].weather[1].type,
                          cloudCover |-> interpolatedCloudCover(
                                           currentEnv[1].weather[1].cloudCover,
                                           nextEnv[1].weather[1].cloudCover,
                                           context.progress)]>>]>>,
                  context.timeSlider)

----------------------------------------------------------------------------
(* scrollAnimation: animateOnScroll.js, lines 21-32 *)

\* An exception of a handler leaves scrollAnimation.
PropagatesUncaught(threw) == threw

\* Whether an exception of a handler leaves the forEach callback: the
\* try/catch of lines 26-30 logs it.
Propagates(threw) == FALSE

\* choreographyHandlers[key](context) (line 27)
RunHandler(key, context) ==
  CASE key = "viewpoint" -> interpolateViewpoint(context)
    [] key = "timeSlider" -> interpolateTimeSlider(context)
    [] key = "environment" -> interpolateEnvironment(context)

\* The forEach of lines 25-31 over the remaining keys: done is what the
\* earlier handlers left (the handlers run with their keys and whether each
\* threw, the goTo calls, the view, the slider, and whether an error escaped).
RECURSIVE ForEachKey(_, _, _)
ForEachKey(keys, args, done) ==
  IF keys = <<>> \/ done.threw THEN done
  ELSE LET r == RunHandler(Head(keys),
                           [args EXCEPT !.mapView = done.mapView,
                                        !.timeSlider = done.timeSlider])
       IN ForEachKey(Tail(keys), args,
                     [handlers |-> Append(done.handlers,
                                          [key |-> Head(keys), threw |-> r.threw]),
                      goTo |-> done.goTo \o r.goTo,
                      mapView |-> r.mapView,
                      timeSlider |-> r.timeSlider,
                      threw |-> Propagates(r.threw)])

\* Object.keys(slideCurrent).filter(...) (lines 23-24)
HandledKeys(slide) == SelectSeq(slide.keys, LAMBDA key : key \in choreographyHandlers)

\* scrollAnimation(slideCurrent, slideNext, progress, mapView, timeSlider):
\* Object.keys throws on an undefined slide.
scrollAnimation(args) ==
  LET untouched == [handlers |-> <<>>, goTo |-> <<>>, mapView |-> args.mapView,
                    timeSlider |-> args.timeSlider, threw |-> FALSE]
  IN IF args.slideCurrent = Undefined
     THEN [untouched EXCEPT !.threw = TRUE]
     ELSE ForEachKey(HandledKeys(args.slideCurrent[1]), args, untouched)

----------------------------------------------------------------------------
(* Calls of scrollAnimation: the choreography data and the page it runs in *)

MaxInstant == 4
MaxStep == 3
MaxKeys == 3

\* Numbers written in the choreography JSON.
CoordLiterals == {1, 10, 18}

\* A camera and a viewpoint with all the interpolated fields, from one literal.
Camera(v) ==
  [position |-> <<[x |-> Num(Fl(v)), y |-> Num(Fl(-v)), z |-> Num(Fl(v + 2))]>>,
   heading |-> Num(Fl(2 * v)), tilt |-> Num(Fl(v))]

Viewpoint(v, camera) ==
  [rotation |-> Num(Fl(v)), scale |-> Num(Fl(3 * v)),
   targetGeometry |-> <<[xmin |-> Num(Fl(-v)), ymin |-> Num(Fl(v - 1)),
                         xmax |-> Num(Fl(v + 2)), ymax |-> Num(Fl(2 * v))]>>,
   camera |-> camera]

\* Viewpoints with and without a camera, and malformed ones: no geometry, a
\* camera without a position, no rotation.
ViewpointSamples ==
  {Viewpoint(v, <<Camera(v)>>) : v \in CoordLiterals}
    \cup {Viewpoint(v, Undefined) : v \in CoordLiterals}
    \cup {[Viewpoint(1, Undefined) EXCEPT !.targetGeometry = Undefined],
          [Viewpoint(1, Undefined) EXCEPT !.rotation = Undefined],
          Viewpoint(1, <<[Camera(1) EXCEPT !.position = Undefined]>>)}

\* slide.timeSlider
TimeData(start, end, step, unit) ==
  [timeSliderStart |-> start, timeSliderEnd |-> end, timeSliderStep |-> step,
   timeSliderUnit |-> unit]

\* Ranges in milliseconds with every small step (none, negative, unknown unit
\* included); 2020-01-01 to 2020-01-10 by days and three seconds by two
\* seconds, both counted from their start.
TimeSamples ==
  {TimeData(start, end, step, unit) :
     start \in 0..1, end \in 0..MaxInstant, step \in (-1)..MaxStep,
     unit \in {"milliseconds", "fortnights"}}
    \cup {TimeData(0, 9 * unitToMs("days"), 1, "days"),
          TimeData(0, 3 * unitToMs("seconds"), 2, "seconds")}

\* slide.environment
Environment(datetime, lightingType, weather, atmosphereEnabled) ==
  [lighting |-> <<[datetime |-> datetime, type |-> lightingType]>>,
   weather |-> weather, atmosphereEnabled |-> atmosphereEnabled]

Weather(type, cloudCover) == <<[type |-> type, cloudCover |-> cloudCover]>>

EnvironmentSamples ==
  {Environment(0, "sun", Weather("sunny", Num(Fl(1))), TRUE),
   Environment(3, "virtual", Weather("cloudy", Num(Fl(10))), FALSE),
   Environment(3, "virtual", Weather("rainy", Undefined), FALSE),
   Environment(3, "virtual", Undefined, FALSE),
   [Environment(3, "sun", Weather("sunny", Num(Fl(1))), TRUE)
      EXCEPT !.lighting = Undefined]}

\* The keys of a slide in their order: at most MaxKeys of the three handled
\* keys and one that has no handler.
KeyOrders ==
  {keys \in UNION {[1..n -> choreographyHandlers \cup {"layerVisibility"}] :
                     n \in 0..MaxKeys} :
     \A i, j \in DOMAIN keys : keys[i] = keys[j] => i = j}

Range(f) == {f[i] : i \in DOMAIN f}

\* A slide with the given keys, those of nulls having the value null.
KeyedSlide(keys, nulls) ==
  Slide(keys,
        IF "viewpoint" \in Range(keys) \ nulls
        THEN <<Viewpoint(1, <<Camera(1)>>)>> ELSE Undefined,
        IF "timeSlider" \in Range(keys) \ nulls
        THEN <<TimeData(0, MaxInstant, 1, "milliseconds")>> ELSE Undefined,
        IF "environment" \in Range(keys) \ nulls
        THEN <<Environment(0, "sun", Weather("sunny", Num(Fl(1))), TRUE)>>
        ELSE Undefined)

KeyedSlides ==
  {KeyedSlide(keys, nulls) :
     keys \in KeyOrders, nulls \in SUBSET choreographyHandlers}

ViewpointSlides ==
  {Slide(<<"viewpoint">>, <<v>>, Undefined, Undefined) : v \in ViewpointSamples}
    \cup {Slide(<<"viewpoint">>, Undefined, Undefined, Undefined)}

EnvironmentSlides ==
  {Slide(<<"environment">>, Undefined, Undefined, <<e>>) : e \in EnvironmentSamples}

TimeSlides ==
  {Slide(<<"timeSlider">>, Undefined, <<d>>, Undefined) : d \in TimeSamples}

\* A next slide with a viewpoint and an environment.
FullSlide ==
  Slide(<<"viewpoint", "environment">>, <<Viewpoint(10, <<Camera(10)>>)>>, Undefined,
        <<Environment(3, "virtual", Weather("cloudy", Num(Fl(10))), FALSE)>>)

\* The view: none yet, a 2D MapView (no camera property), a 3D SceneView.
Views ==
  {Null, <<[camera |-> FALSE, environment |-> Undefined]>>,
   <<[camera |-> TRUE, environment |-> Undefined]>>}

\* payload.progress: "NaN", the tracker's hundredths, and values outside [0, 1]
\* that another sender may post.
ProgressSamples ==
  {[nan |-> TRUE, cents |-> 0]}
    \cup {[nan |-> FALSE, cents |-> c] :
            c \in {-50, 0, 1, 25, 33, 50, 75, 99, 100, 150}}

Args(slideCurrent, slideNext, progress, view, slider) ==
  [slideCurrent |-> slideCurrent, slideNext |-> slideNext, progress |-> progress,
   mapView |-> view, timeSlider |-> slider]

\* Calls about viewpoints and environments, about time ranges, and about the
\* keys of the current slide; and the call with no current slide.
CallSamples ==
  {Args(<<c>>, n, p, v, Null) :
     c \in ViewpointSlides \cup EnvironmentSlides,
     n \in {Undefined} \cup {<<s>> : s \in ViewpointSlides \cup EnvironmentSlides},
     p \in ProgressSamples, v \in Views}
    \cup {Args(<<c>>, Undefined, p, Null, s) :
            c \in TimeSlides, p \in ProgressSamples, s \in {Null, <<Slider>>}}
    \cup {Args(<<c>>, n, [nan |-> FALSE, cents |-> 50], v, s) :
            c \in KeyedSlides,
            n \in {Undefined, <<FullSlide>>,
                   <<Slide(<<"timeSlider">>, Undefined, Undefined, Undefined)>>},
            v \in Views, s \in {Null, <<Slider>>}}
    \cup {Args(Undefined, Undefined, p, Null, Null) : p \in ProgressSamples}

InitAnim ==
  /\ isDocked = FALSE
  /\ dockStartScroll = Null
  /\ scrollY = 0
  /\ lastScrollY = 0
  /\ scrollDirection = "down"
  /\ currentSlide = 0
  /\ docked = FALSE
  /\ dockObserver = "polling"
  /\ frameWatcher = "polling"
  /\ iframe = NoFrame
  /\ panels \in Layouts
  /\ dockSeen = Null
  /\ dockRecords = "none"
  /\ ev = NoEv
  /\ PureIdle
  /\ ReceiverIdle
  /\ animArgs \in CallSamples
  /\ animDone = Undefined

\* One call of scrollAnimation with the arguments chosen.
ScrollAnimation ==
  /\ animDone = Undefined
  /\ animDone' = <<scrollAnimation(animArgs)>>
  /\ UNCHANGED <<trackerVars, progressOut, parseOut, receiverVars, animArgs>>

NextAnim == ScrollAnimation

SpecAnim == InitAnim /\ [][NextAnim]_vars

----------------------------------------------------------------------------
(* Properties of the interpolation engine *)

\* How many of the handlers run were the handler of key.
TimesHandled(done, key) ==
  Cardinality({i \in DOMAIN done.handlers : done.handlers[i].key = key})

\* C11: scrollAnimation runs the handler of every handled key of the current
\* slide exactly once and the handler of no other key, whether or not one of
\* them fails, and raises no error itself.
C11_EachPresentKeyHandledOnce ==
  (animDone # Undefined /\ animArgs.slideCurrent # Undefined) =>
    LET slide == animArgs.slideCurrent[1]
        done == animDone[1]
    IN /\ ~done.threw
       /\ \A key \in choreographyHandlers :
            TimesHandled(done, key) = IF key \in Range(slide.keys) THEN 1 ELSE 0

\* A slide with all three keys whose first handler failed; the time slider,
\* handled last, was still set.
C11_Witness ==
  /\ animDone # Undefined
  /\ Len(animDone[1].handlers) = 3
  /\ animDone[1].handlers[1].threw
  /\ animDone[1].handlers[3] = [key |-> "timeSlider", threw |-> FALSE]
  /\ animDone[1].timeSlider # Null
  /\ animDone[1].timeSlider[1].timeExtent # Null
  /\ ~animDone[1].threw

HasCamera(slide) == slide.viewpoint # Undefined /\ slide.viewpoint[1].camera # Undefined

\* The pair of slides lacks one side of the viewpoint interpolation.
ViewpointSideMissing ==
  \/ animArgs.slideNext = Undefined
  \/ animArgs.slideNext[1].viewpoint = Undefined
  \/ /\ animArgs.mapView # Null
     /\ animArgs.mapView[1].camera
     /\ HasCamera(animArgs.slideCurrent[1]) # HasCamera(animArgs.slideNext[1])

\* C12: with a viewpoint on the current slide and one side of the pair
\* missing, the call makes no goTo and raises no error.
C12_NoGoToWithoutBothSides ==
  (/\ animDone # Undefined
   /\ animArgs.slideCurrent # Undefined
   /\ animArgs.slideCurrent[1].viewpoint # Undefined
   /\ ViewpointSideMissing) =>
    /\ animDone[1].goTo = <<>>
    /\ ~animDone[1].threw

\* The next slide is there without a viewpoint: the viewpoint handler threw,
\* scrollAnimation did not.
C12_Witness ==
  /\ animDone # Undefined
  /\ animArgs.slideCurrent # Undefined
  /\ animArgs.slideCurrent[1].viewpoint # Undefined
  /\ animArgs.slideNext # Undefined
  /\ animArgs.slideNext[1].viewpoint = Undefined
  /\ animDone[1].handlers = <<[key |-> "viewpoint", threw |-> TRUE]>>
  /\ animDone[1].goTo = <<>>
  /\ ~animDone[1].threw

\* The interpolated fields of a camera and of a viewpoint.
CameraFields(camera) ==
  [x |-> camera.position[1].x, y |-> camera.position[1].y,
   z |-> camera.position[1].z, heading |-> camera.heading, tilt |-> camera.tilt]

ViewpointFields(viewpoint) ==
  [rotation |-> viewpoint.rotation, scale |-> viewpoint.scale,
   xmin |-> viewpoint.targetGeometry[1].xmin,
   ymin |-> viewpoint.targetGeometry[1].ymin,
   xmax |-> viewpoint.targetGeometry[1].xmax,
   ymax |-> viewpoint.targetGeometry[1].ymax]

AllDefined(fields) == \A f \in DOMAIN fields : fields[f] # Undefined

\* The interpolated fields of a slide's viewpoint, for the kind of goTo made.
FieldsFor(kind, slide) ==
  IF kind = "camera" THEN CameraFields(slide.viewpoint[1].camera[1])
  ELSE ViewpointFields(slide.viewpoint[1])

\* C13: when both slides define the interpolated fields, the target of the
\* goTo at progress 0 is the current slide's values and at progress 1 the next
\* slide's values.
C13_BoundaryValuesExact ==
  (animDone # Undefined /\ animDone[1].goTo # <<>> /\ ~animArgs.progress.nan) =>
    LET call == animDone[1].goTo[1]
        current == FieldsFor(call.kind, animArgs.slideCurrent[1])
        next == FieldsFor(call.kind, animArgs.slideNext[1])
    IN (AllDefined(current) /\ AllDefined(next)) =>
         /\ animArgs.progress.cents = 0 => call.target = <<current>>
         /\ animArgs.progress.cents = 100 => call.target = <<next>>

----------------------------------------------------------------------------

\* The slide's time data admits snapping: start <= end and a positive step in
\* a known unit.
Snappable(data) ==
  /\ data.timeSliderStart <= data.timeSliderEnd
  /\ data.timeSliderStep > 0
  /\ unitToMs(data.timeSliderUnit) > 0

\* min(end, start + ceil((end - start) * progress / stepMs) * stepMs) for
\* progress = cents/100, computed in the unit of the step (start and end are
\* whole numbers of that unit).
ExpectedEnd(data, cents) ==
  LET unit == unitToMs(data.timeSliderUnit)
      start == data.timeSliderStart \div unit
      end == data.timeSliderEnd \div unit
      snapped == start + Ceil((end - start) * cents, 100 * data.timeSliderStep)
                           * data.timeSliderStep
  IN unit * (IF snapped < end THEN snapped ELSE end)

\* The call is made with a slider element and a time range on the slide.
TimeCall ==
  /\ animDone # Undefined
  /\ animArgs.slideCurrent # Undefined
  /\ "timeSlider" \in Range(animArgs.slideCurrent[1].keys)
  /\ animArgs.slideCurrent[1].timeSlider # Undefined
  /\ animArgs.timeSlider # Null

\* 2020-01-01 to 2020-01-10 by steps of one day, in milliseconds from the start.
TenDays == TimeData(0, 9 * unitToMs("days"), 1, "days")

C15_UnsnappedResultApplied ==
  (/\ TimeCall
   /\ ~Snappable(animArgs.slideCurrent[1].timeSlider[1])
   /\ animArgs.slideCurrent[1].timeSlider[1].timeSliderStart
        <= animArgs.slideCurrent[1].timeSlider[1].timeSliderEnd
   /\ ~animArgs.progress.nan
   /\ animArgs.progress.cents \in 0..100) =>
    LET data == animArgs.slideCurrent[1].timeSlider[1]
        slider == animDone[1].timeSlider[1]
        interpolatedTime ==
          Truncated(data.timeSliderStart * 100
                      + (data.timeSliderEnd - data.timeSliderStart)
                          * animArgs.progress.cents, 100)
    IN /\ ~slider.playing
       /\ slider.timeExtent # Null
       /\ slider.timeExtent[1].end =
            Num(clampedTime(interpolatedTime, data.timeSliderStart,
                            data.timeSliderEnd))

----------------------------------------------------------------------------
(* Further properties of the tracker's observers and of the scroll handler *)

\* C21: a callback of the class observer leaves isDocked equal to the marker
\* as the container carries it then, however many class changes its records
\* stand for; a callback that finds the marker set while already docked makes
\* no transition and leaves the anchor as it was.
C21_IsDockedFollowsMarker ==
  [][ev'.op \in DockOps =>
       /\ isDocked' = docked'
       /\ docked' = docked
       /\ (isDocked /\ docked) =>
            /\ ev'.op = "dock-same"
            /\ dockStartScroll' = dockStartScroll]_vars

\* A callback called with several records (the marker removed and set again)
\* while docked, after the window was scrolled down past the anchor: still
\* docked, the anchor where it was.
C21_Witness ==
  /\ ev.op = "dock-same"
  /\ ev.records = "several"
  /\ dockSeen = <<TRUE>>
  /\ isDocked
  /\ docked
  /\ scrollDirection = "down"
  /\ dockStartScroll # Null
  /\ scrollY > Val(dockStartScroll)

\* C22: every scroll event sets lastScrollY to the event's scrollY and the
\* direction to "down" after an increase, to "up" after a decrease, and leaves
\* the direction after no change, docked or not, anchored or not.
C22_DirectionUpdatedOnEveryScroll ==
  [][ev'.op = "scroll" =>
       /\ lastScrollY' = scrollY
       /\ scrollY > lastScrollY => scrollDirection' = "down"
       /\ scrollY < lastScrollY => scrollDirection' = "up"
       /\ scrollY = lastScrollY => scrollDirection' = scrollDirection]_vars

\* A scroll event handled after scrolling up, the tracker neither docked nor
\* anchored.
C22_Witness ==
  /\ ev.op = "scroll"
  /\ ~isDocked
  /\ dockStartScroll = Null
  /\ scrollDirection = "up"
  /\ lastScrollY = scrollY
  /\ scrollY < MaxScroll

\* C26: a callback of the child-list observer initialises the frame it finds
\* (initialization message, tracked slide 0, src observer) when that frame has
\* not been initialised, and does nothing otherwise; a frame stays initialised
\* for as long as it is there, so each frame is initialised once, and the
\* frame inserted after its removal once again.
C26_FrameInitialisedOnce ==
  [][/\ ev'.op = "frame" =>
          IF iframe.present /\ ~iframe.observed
          THEN /\ ev'.posted = <<InitMessage>>
               /\ currentSlide' = 0
               /\ iframe' = [iframe EXCEPT !.observed = TRUE]
          ELSE /\ ev'.posted = <<>>
               /\ currentSlide' = currentSlide
               /\ iframe' = iframe
     /\ (iframe.present /\ iframe.observed /\ iframe'.present) => iframe'.observed
     /\ (~iframe.present /\ iframe'.present) => ~iframe'.observed]_vars

\* A further callback for a frame already initialised, its src observer having
\* tracked slide 1 since: nothing is sent and the slide is not reset.
C26_Witness ==
  /\ ev.op = "frame"
  /\ ev.posted = <<>>
  /\ iframe.present
  /\ iframe.observed
  /\ currentSlide = 1

----------------------------------------------------------------------------
(* Further properties of the map animator *)

\* C23: when the view becomes ready, with the load under way or complete, the
\* view-ready handler applies slide 0 of the choreography discretely.
C23_ViewReadyAppliesSlideZero ==
  (rx.op = "viewReady" /\ initPc \in {"loading", "ready"}) =>
    /\ CallsOf("slideAnimation") = {1}
    /\ rx.calls[1].slide # Undefined
    /\ rx.calls[1].slide = SlideAt(slides, Num(0))

\* The hash of the event names a slide of the choreography.
HashNamesSlide(h) ==
  /\ ParseInt10(Substring1(h)) # NaN
  /\ SlideAt(slides, ParseInt10(Substring1(h))) # Undefined

\* C24: a hash change applies a slide discretely exactly when its hash names a
\* slide of the choreography and the receiver is not embedded, and never
\* changes hashIndexLast.
C24_HashAppliesWhenNotEmbedded ==
  [][rx'.op = "hashchange" =>
       /\ hashIndexLast' = hashIndexLast
       /\ (CallsOf("slideAnimation")' # {})
            <=> (HashNamesSlide(rx'.arg) /\ ~isEmbedded)]_vars

\* C25: the message handler, given an envelope of the controller with the
\* initialization payload or with a progress payload for a slide of the
\* choreography, sets isEmbedded to the payload's flag and raises no error.
C25_ProtocolPayloadsHandled ==
  (/\ rx.op = "message"
   /\ "message" \in listeners
   /\ rx.arg.source = Controller
   /\ \/ rx.arg.payload.type = "undefined"
      \/ SlideAt(slides, rx.arg.payload.slide) # Undefined) =>
    /\ isEmbedded = rx.arg.payload.isEmbedded
    /\ ~rx.threw

----------------------------------------------------------------------------
(* Further properties of the interpolation engine *)

\* The environment of a slide given to scrollAnimation, if it has one.
EnvironmentOf(slide) == IF slide = Undefined THEN Undefined ELSE slide[1].environment

\* An environment that has its lighting and its weather.
WellFormed(env) ==
  /\ env # Undefined
  /\ env[1].lighting # Undefined
  /\ env[1].weather # Undefined

\* The call was made and its current slide has the environment key.
EnvironmentCall ==
  /\ animDone # Undefined
  /\ animArgs.slideCurrent # Undefined
  /\ "environment" \in Range(animArgs.slideCurrent[1].keys)

\* C27: with an environment on both slides and a view, the call leaves the
\* view with the lighting type and the weather type of the next slide at every
\* progress, 0 included, and with the lighting date at
\* from + (to - from) * progress for the progress as it was given (not eased,
\* not clamped), the fraction of a millisecond dropped; when the current or
\* the next slide has no environment the view is left as it was.
C27_TypesOfNextDateLinear ==
  EnvironmentCall =>
    LET currentEnv == EnvironmentOf(animArgs.slideCurrent)
        nextEnv == EnvironmentOf(animArgs.slideNext)
        progress == animArgs.progress
    IN /\ (WellFormed(currentEnv) /\ WellFormed(nextEnv) /\ animArgs.mapView # Null) =>
            LET applied == animDone[1].mapView[1].environment
                fromVal == currentEnv[1].lighting[1].datetime
                toVal == nextEnv[1].lighting[1].datetime
                scaled == fromVal * 100 + (toVal - fromVal) * progress.cents
            IN /\ applied # Undefined
               /\ applied[1].lightingType = nextEnv[1].lighting[1].type
               /\ applied[1].weatherType = nextEnv[1].weather[1].type
               /\ progress.nan => applied[1].date = NaN
               /\ ~progress.nan =>
                    /\ applied[1].date # NaN
                    /\ Val(applied[1].date) * 100 - scaled \in -99..99
                    /\ scaled >= 0 => Val(applied[1].date) * 100 <= scaled
                    /\ scaled <= 0 => Val(applied[1].date) * 100 >= scaled
                    /\ progress.cents = 0 => Val(applied[1].date) = fromVal
                    /\ progress.cents = 100 => Val(applied[1].date) = toVal
       /\ (currentEnv = Undefined \/ nextEnv = Undefined) =>
            animDone[1].mapView = animArgs.mapView

\* At progress 0 between a slide lit by the sun at instant 0 in sunny weather
\* and a slide with virtual lighting at instant 3 in cloudy weather: the types
\* of the next slide, the date of the current one.
C27_Witness ==
  /\ EnvironmentCall
  /\ animArgs.progress = [nan |-> FALSE, cents |-> 0]
  /\ WellFormed(EnvironmentOf(animArgs.slideCurrent))
  /\ WellFormed(EnvironmentOf(animArgs.slideNext))
  /\ EnvironmentOf(animArgs.slideCurrent)[1].lighting[1] = [datetime |-> 0, type |-> "sun"]
  /\ EnvironmentOf(animArgs.slideCurrent)[1].weather[1].type = "sunny"
  /\ EnvironmentOf(animArgs.slideNext)[1].lighting[1] = [datetime |-> 3, type |-> "virtual"]
  /\ animArgs.mapView # Null
  /\ animDone[1].mapView[1].environment # Undefined
  /\ animDone[1].mapView[1].environment[1].lightingType = "virtual"
  /\ animDone[1].mapView[1].environment[1].weatherType = "cloudy"
  /\ animDone[1].mapView[1].environment[1].date = Num(0)

====
